---------------------------- MODULE Spec2Model ----------------------------
(***************************************************************************)
(* Model of dashdli.py: a Streamlit dashboard behind an access-code gate   *)
(* that downloads a private CSV export, caches it on disk with a one-hour  *)
(* staleness policy and renders filters over it.                           *)
(*                                                                         *)
(* Streamlit runs the script top to bottom once per user interaction, one  *)
(* thread per browser session.  A run of session s is modelled by pc[s]    *)
(* walking the script; "idle" means the run has ended and the page waits   *)
(* for the next interaction.  The cached file lives in a small file system *)
(* of inodes, so that a rename, an open file descriptor and a crash can be *)
(* told apart.  Time is counted in units of ten minutes.                   *)
(*                                                                         *)
(* Strings are sequences of one-character strings.                         *)
(***************************************************************************)
EXTENDS Integers, Sequences, FiniteSets, TLC

VARIABLES
    access_code,   \* os.getenv("ACCESS_CODE", ""), as a sequence of characters
    WP_USER,       \* os.getenv("WP_USER"): NoneVal, "" or a name
    WP_PASS,       \* os.getenv("WP_PASS")
    auth_ok,       \* st.session_state.auth_ok per session: "absent", "false", "true"
    pwd,           \* value of the access-code text input of the login form
    entrar,        \* the form's submit button, true for the run the click started
    sair,          \* the sidebar logout button, likewise
    atualizar,     \* the sidebar "refresh now" button, likewise
    pc,            \* position of the session's script run
    outcome,       \* how the session's last finished run ended
    site,          \* call site of the running update_csv: "button" or "cycle"
    warned,        \* st.warning was called in this run
    fetched,       \* download_csv was called in this run
    data,          \* update_csv's local `data`
    tmp,           \* inode of update_csv's temporary file, 0 when none
    fd,            \* inode opened by pd.read_csv, 0 when none
    buf,           \* what pd.read_csv has read so far
    mtime,         \* the script's local `mtime`
    df,            \* the script's local `df`
    docs,          \* the docs/ directory exists
    inodes,        \* the files of docs/: inode -> record, or NoFile
    target,        \* the directory entry CSV_PATH: an inode, 0 when absent
    now,           \* the clock
    nwrites,       \* writes to files in the current ten minutes (file times are unique)
    memo,          \* entries of st.cache_data for load_data
    estado_sel,    \* the script's local `estado_sel`, the state select box
    cats_sel,      \* the script's local `cats_sel`, the category multiselect
    df_f,          \* the script's local `df_f`
    cat_series     \* the script's local `cat_series`

vars == <<access_code, WP_USER, WP_PASS, auth_ok, pwd, entrar, sair, atualizar,
          pc, outcome, site, warned, fetched, data, tmp, fd, buf, mtime, df,
          docs, inodes, target, now, nwrites, memo,
          estado_sel, cats_sel, df_f, cat_series>>

envVars  == <<access_code, WP_USER, WP_PASS>>
btnVars  == <<entrar, sair, atualizar>>
updVars  == <<data, tmp>>
loadVars == <<fd, buf, mtime, df>>
fsVars   == <<docs, inodes, target, nwrites>>
viewVars == <<estado_sel, cats_sel, df_f, cat_series>>

-----------------------------------------------------------------------------
(* Bounds of the model *)

MaxTime     == 7      \* the clock stops here
MaxVersion  == 2      \* distinct contents the remote export can have
MaxWrites   == 4      \* writes to files within ten minutes
MaxCodeLen  == 3      \* longest ACCESS_CODE value tried by SpecAuth
MaxPwdLen   == 2      \* longest submitted code tried by SpecAuth

(* Program constants, in units of ten minutes *)

MAX_AGE == 6          \* dt.timedelta(hours=1)
TTL     == 1          \* st.cache_data(ttl=600)

\* the browser sessions
Sessions == {1, 2}
NoneVal  == "None"
NoFile   == [data |-> <<>>, t |-> 0 - 1, n |-> 0, synced |-> FALSE]
NoTime   == [t |-> 0 - 1, n |-> 0]

-----------------------------------------------------------------------------
(* Strings *)

WS    == " "
Comma == ","
Chars == {WS, Comma, "a", "b"}

RECURSIVE StringsUpTo(_)
StringsUpTo(k) ==
    IF k = 0 THEN {<<>>}
    ELSE LET S == StringsUpTo(k - 1)
         IN  S \cup {Append(s, c) : s \in {x \in S : Len(x) = k - 1}, c \in Chars}

RECURSIVE LStrip(_)
LStrip(s) == IF s # <<>> /\ Head(s) = WS THEN LStrip(Tail(s)) ELSE s

RECURSIVE RStrip(_)
RStrip(s) ==
    IF s # <<>> /\ s[Len(s)] = WS THEN RStrip(SubSeq(s, 1, Len(s) - 1)) ELSE s

\* str.strip()
Strip(s) == RStrip(LStrip(s))

\* str.split(sep): the pieces between separators, empty pieces kept
RECURSIVE Split(_, _)
Split(s, sep) ==
    IF \E i \in 1..Len(s) : s[i] = sep
    THEN LET i == CHOOSE j \in 1..Len(s) :
                      s[j] = sep /\ \A k \in 1..(j - 1) : s[k] # sep
         IN  <<SubSeq(s, 1, i - 1)>> \o Split(SubSeq(s, i + 1, Len(s)), sep)
    ELSE <<s>>

\* {c.strip() for c in code.split(",") if c.strip()}
ValidCodesNoStrip(code) ==
    LET parts == Split(code, Comma)
    IN  {parts[i] : i \in {j \in 1..Len(parts) : Strip(parts[j]) # <<>>}}

ValidCodesOf(code) ==
    LET parts == Split(code, Comma)
    IN  {Strip(parts[i]) : i \in {j \in 1..Len(parts) : Strip(parts[j]) # <<>>}}

VALID_CODES == ValidCodesOf(access_code)

\* `pwd in VALID_CODES`
CodeMatches(s) == pwd[s] \in VALID_CODES

\* `not WP_USER or not WP_PASS`
Falsy(v) == v = NoneVal \/ v = ""

WpMissing == Falsy(WP_USER) \/ Falsy(WP_PASS)

-----------------------------------------------------------------------------
(* The file system of docs/ *)

\* a temporary file and an open file per session, and the cached file
MaxInodes == 2 * Cardinality(Sessions) + 1

\* The remote export at one moment: two chunks of one version
Payload(v) == <<v, v>>

Payloads == {Payload(v) : v \in 1..MaxVersion}

FreeInodes == {i \in 1..MaxInodes : inodes[i] = NoFile}

NewInode == CHOOSE i \in FreeInodes : \A j \in FreeInodes : i <= j

\* inode i is still named by the directory or held open by somebody
InUse(i, tgt, tmps, fds) ==
    i = tgt \/ \E s \in Sessions : tmps[s] = i \/ fds[s] = i

\* drop every inode that nothing refers to any more
Collect(ino, tgt, tmps, fds) ==
    [i \in 1..MaxInodes |-> IF InUse(i, tgt, tmps, fds) THEN ino[i] ELSE NoFile]

\* CSV_PATH.exists()
Exists == target # 0

\* CSV_PATH.stat().st_mtime
StatMtime == [t |-> inodes[target].t, n |-> inodes[target].n]

\* not CSV_PATH.exists() or now - mtime > MAX_AGE
OutdatedAtThreshold == \/ ~Exists
                       \/ now - inodes[target].t >= MAX_AGE

OutdatedAlways == TRUE

Outdated == \/ ~Exists
            \/ now - inodes[target].t > MAX_AGE

-----------------------------------------------------------------------------
(* The initial state: a fresh deployment, nobody connected yet *)

EnvCodes == {<<>>, <<WS, Comma>>, <<"a">>, <<"a", Comma, WS, "b">>}

Candidates == {<<>>, <<"a">>, <<WS, "a">>, <<"b">>, <<Comma>>}

AllSessions(v) == [s \in Sessions |-> v]

InitSessions ==
    /\ auth_ok = AllSessions("absent")
    /\ pwd = AllSessions(<<>>)
    /\ entrar = AllSessions(FALSE)
    /\ sair = AllSessions(FALSE)
    /\ atualizar = AllSessions(FALSE)
    /\ pc = AllSessions("idle")
    /\ outcome = AllSessions("none")
    /\ site = AllSessions("cycle")
    /\ warned = AllSessions(FALSE)
    /\ fetched = AllSessions(FALSE)
    /\ data = AllSessions(<<>>)
    /\ tmp = AllSessions(0)
    /\ fd = AllSessions(0)
    /\ buf = AllSessions(<<>>)
    /\ mtime = AllSessions(NoTime)
    /\ df = AllSessions(<<>>)

\* nothing selected, filtered or charted yet
InitView ==
    /\ estado_sel = AllSessions("Todos")
    /\ cats_sel = AllSessions({})
    /\ df_f = AllSessions(<<>>)
    /\ cat_series = AllSessions(<<>>)

InitDisk ==
    /\ docs = FALSE
    /\ inodes = [i \in 1..MaxInodes |-> NoFile]
    /\ target = 0
    /\ now = 0
    /\ nwrites = 0
    /\ memo = {}

Init ==
    /\ access_code \in EnvCodes
    /\ WP_USER \in {NoneVal, "", "user"}
    /\ WP_PASS \in {NoneVal, "pass"}
    /\ InitSessions
    /\ InitDisk
    /\ InitView

-----------------------------------------------------------------------------
(* Script control *)

\* what one run of the script leaves behind itself: the warnings it showed,
\* whether it fetched, and its local variables
runVars == <<warned, fetched, data, buf, mtime, df>>

\* a new run of the script starts from line 1 with nothing of the last one
BeginRun(s) ==
    /\ pc' = [pc EXCEPT ![s] = "start"]
    /\ warned' = [warned EXCEPT ![s] = FALSE]
    /\ fetched' = [fetched EXCEPT ![s] = FALSE]
    /\ data' = [data EXCEPT ![s] = <<>>]
    /\ buf' = [buf EXCEPT ![s] = <<>>]
    /\ mtime' = [mtime EXCEPT ![s] = NoTime]
    /\ df' = [df EXCEPT ![s] = <<>>]

\* rerun(): the run stops and a new one starts with every button released
rerun(s) ==
    /\ BeginRun(s)
    /\ entrar' = [entrar EXCEPT ![s] = FALSE]
    /\ sair' = [sair EXCEPT ![s] = FALSE]
    /\ atualizar' = [atualizar EXCEPT ![s] = FALSE]

\* st.stop(), the end of the script, or an exception nobody catches
EndRun(s, how) ==
    /\ pc' = [pc EXCEPT ![s] = "idle"]
    /\ outcome' = [outcome EXCEPT ![s] = how]

Goto(s, label) == pc' = [pc EXCEPT ![s] = label]

-----------------------------------------------------------------------------
(* What the user does on a page whose run has ended *)

\* the first page load, or a change of a filter or of the search box
Visit(s) ==
    /\ pc[s] = "idle"
    /\ rerun(s)
    /\ UNCHANGED <<viewVars, envVars, auth_ok, pwd, outcome, site, tmp, fd, fsVars,
                   now, memo>>

\* the login form is on the page: type a code and press "Entrar"
Submit(s, code) ==
    /\ pc[s] = "idle"
    /\ outcome[s] \in {"login_form", "login_error"}
    /\ pwd' = [pwd EXCEPT ![s] = code]
    /\ BeginRun(s)
    /\ entrar' = [entrar EXCEPT ![s] = TRUE]
    /\ UNCHANGED <<viewVars, envVars, auth_ok, sair, atualizar, outcome, site, tmp, fd,
                   fsVars, now, memo>>

\* the run got as far as line 83: the sidebar shows "Sair"
ClickSair(s) ==
    /\ pc[s] = "idle"
    /\ outcome[s] \in {"wp_error", "exception", "rendered"}
    /\ BeginRun(s)
    /\ sair' = [sair EXCEPT ![s] = TRUE]
    /\ UNCHANGED <<viewVars, envVars, auth_ok, pwd, entrar, atualizar, outcome, site,
                   tmp, fd, fsVars, now, memo>>

\* the run got as far as line 144: the sidebar shows the refresh button
ClickAtualizar(s) ==
    /\ pc[s] = "idle"
    /\ outcome[s] \in {"exception", "rendered"}
    /\ BeginRun(s)
    /\ atualizar' = [atualizar EXCEPT ![s] = TRUE]
    /\ UNCHANGED <<viewVars, envVars, auth_ok, pwd, entrar, sair, outcome, site, tmp,
                   fd, fsVars, now, memo>>

-----------------------------------------------------------------------------
(* The script, top to bottom *)

\* lines 51-53: no access code configured
CheckCodes(s) ==
    /\ pc[s] = "start"
    /\ IF VALID_CODES = {}
       THEN EndRun(s, "config_error")
       ELSE Goto(s, "gate") /\ UNCHANGED outcome
    /\ UNCHANGED <<viewVars, envVars, auth_ok, pwd, btnVars, site, runVars, tmp, fd,
                   fsVars, now, memo>>

\* lines 55-59: create the flag, then the gate.  Past the gate the login form
\* is not drawn, and Streamlit forgets the value of a widget that is not drawn.
GateOpen(s) ==
    /\ pc[s] = "gate"
    /\ auth_ok' = [auth_ok EXCEPT ![s] = IF @ = "absent" THEN "false" ELSE @]
    /\ Goto(s, "sair")
    /\ pwd' = [pwd EXCEPT ![s] = <<>>]
    /\ UNCHANGED <<viewVars, envVars, btnVars, outcome, site, runVars, tmp, fd, fsVars,
                   now, memo>>

Gate(s) ==
    /\ pc[s] = "gate"
    /\ auth_ok' = [auth_ok EXCEPT ![s] = IF @ = "absent" THEN "false" ELSE @]
    /\ IF auth_ok'[s] = "true"
       THEN Goto(s, "sair") /\ pwd' = [pwd EXCEPT ![s] = <<>>]
       ELSE Goto(s, "login") /\ UNCHANGED pwd
    /\ UNCHANGED <<viewVars, envVars, btnVars, outcome, site, runVars, tmp, fd, fsVars,
                   now, memo>>

\* lines 61-80: the login form and its handler
Login(s) ==
    /\ pc[s] = "login"
    /\ IF entrar[s]
       THEN IF CodeMatches(s)
            THEN /\ auth_ok' = [auth_ok EXCEPT ![s] = "true"]
                 /\ rerun(s)
                 /\ UNCHANGED outcome
            ELSE /\ EndRun(s, "login_error")
                 /\ UNCHANGED <<auth_ok, btnVars, runVars>>
       ELSE /\ EndRun(s, "login_form")
            /\ UNCHANGED <<auth_ok, btnVars, runVars>>
    /\ UNCHANGED <<viewVars, envVars, pwd, site, tmp, fd, fsVars, now, memo>>

\* lines 83-85: the logout button
LogoutKeepsFlag(s) ==
    /\ pc[s] = "sair"
    /\ IF sair[s]
       THEN rerun(s) /\ UNCHANGED auth_ok
       ELSE Goto(s, "wp") /\ UNCHANGED <<auth_ok, btnVars, runVars>>
    /\ UNCHANGED <<viewVars, envVars, pwd, outcome, site, tmp, fd, fsVars, now, memo>>

Logout(s) ==
    /\ pc[s] = "sair"
    /\ IF sair[s]
       THEN auth_ok' = [auth_ok EXCEPT ![s] = "false"] /\ rerun(s)
       ELSE Goto(s, "wp") /\ UNCHANGED <<auth_ok, btnVars, runVars>>
    /\ UNCHANGED <<viewVars, envVars, pwd, outcome, site, tmp, fd, fsVars, now, memo>>

\* lines 95-99: the WordPress credentials
WpCheckSkipped(s) ==
    /\ pc[s] = "wp"
    /\ Goto(s, "button")
    /\ UNCHANGED <<viewVars, envVars, auth_ok, pwd, btnVars, outcome, site, runVars,
                   tmp, fd, fsVars, now, memo>>

WpCheck(s) ==
    /\ pc[s] = "wp"
    /\ IF WpMissing
       THEN EndRun(s, "wp_error")
       ELSE Goto(s, "button") /\ UNCHANGED outcome
    /\ UNCHANGED <<viewVars, envVars, auth_ok, pwd, btnVars, site, runVars, tmp, fd,
                   fsVars, now, memo>>

\* lines 144-145 and 157: update_csv() is called from the button's branch when
\* the button was pressed, and from line 157 otherwise
Button(s) ==
    /\ pc[s] = "button"
    /\ site' = [site EXCEPT ![s] = IF atualizar[s] THEN "button" ELSE "cycle"]
    /\ Goto(s, "upd_check")
    /\ UNCHANGED <<viewVars, envVars, auth_ok, pwd, btnVars, outcome, runVars, tmp, fd,
                   fsVars, now, memo>>

-----------------------------------------------------------------------------
(* update_csv, lines 119-138 *)

\* lines 122-127
UpdCheck(s) ==
    /\ pc[s] = "upd_check"
    /\ Goto(s, IF Outdated THEN "download" ELSE "ret")
    /\ UNCHANGED <<viewVars, envVars, auth_ok, pwd, btnVars, outcome, site, runVars,
                   tmp, fd, fsVars, now, memo>>

\* line 129, download_csv returns the export as it is at this moment
DownloadOk(s) ==
    /\ pc[s] = "download"
    /\ \E bytes \in Payloads : data' = [data EXCEPT ![s] = bytes]
    /\ fetched' = [fetched EXCEPT ![s] = TRUE]
    /\ Goto(s, "mktmp")
    /\ UNCHANGED <<viewVars, envVars, auth_ok, pwd, btnVars, outcome, site, warned, tmp,
                   loadVars, fsVars, now, memo>>

\* line 129 raises (timeout, HTTP status, not CSV); lines 137-138 catch it
DownloadFailUncaught(s) ==
    /\ pc[s] = "download"
    /\ fetched' = [fetched EXCEPT ![s] = TRUE]
    /\ EndRun(s, "exception")
    /\ UNCHANGED <<viewVars, envVars, auth_ok, pwd, btnVars, site, warned, updVars,
                   loadVars, fsVars, now, memo>>

DownloadFail(s) ==
    /\ pc[s] = "download"
    /\ fetched' = [fetched EXCEPT ![s] = TRUE]
    /\ warned' = [warned EXCEPT ![s] = TRUE]
    /\ Goto(s, "ret")
    /\ UNCHANGED <<viewVars, envVars, auth_ok, pwd, btnVars, outcome, site, updVars,
                   loadVars, fsVars, now, memo>>

\* lines 130-132: mkdir, then an empty temporary file in docs/
MkTmpInPlace(s) ==
    /\ pc[s] = "mktmp"
    /\ docs' = TRUE
    /\ LET i == IF Exists THEN target ELSE NewInode
       IN  /\ inodes' = [inodes EXCEPT ![i] =
                            [data |-> <<>>, t |-> now, n |-> 0, synced |-> FALSE]]
           /\ tmp' = [tmp EXCEPT ![s] = i]
           /\ target' = i
    /\ Goto(s, "write")
    /\ UNCHANGED <<viewVars, envVars, auth_ok, pwd, btnVars, outcome, site, warned,
                   fetched, data, loadVars, nwrites, now, memo>>

MkTmp(s) ==
    /\ pc[s] = "mktmp"
    /\ docs' = TRUE
    /\ LET i == NewInode
       IN  /\ inodes' = [inodes EXCEPT ![i] =
                            [data |-> <<>>, t |-> now, n |-> 0, synced |-> FALSE]]
           /\ tmp' = [tmp EXCEPT ![s] = i]
    /\ Goto(s, "write")
    /\ UNCHANGED <<viewVars, envVars, auth_ok, pwd, btnVars, outcome, site, warned,
                   fetched, data, loadVars, target, nwrites, now, memo>>

\* the file a write of the next chunk of `bytes` leaves in place of f
Written(f, bytes) ==
    [data |-> Append(f.data, bytes[Len(f.data) + 1]), t |-> now,
     n |-> nwrites + 1, synced |-> FALSE]

\* lines 133-134, tmp.write(data); tmp.flush(): the bytes reach the file one
\* chunk at a time, each write stamping the file with a time of its own
Write(s) ==
    /\ pc[s] = "write"
    /\ nwrites < MaxWrites
    /\ nwrites' = nwrites + 1
    /\ LET f == inodes[tmp[s]]
       IN  /\ inodes' = [inodes EXCEPT ![tmp[s]] = Written(f, data[s])]
           /\ Goto(s, IF Len(f.data) + 1 = Len(data[s]) THEN "fsync" ELSE "write")
    /\ UNCHANGED <<viewVars, envVars, auth_ok, pwd, btnVars, outcome, site, warned,
                   fetched, updVars, loadVars, docs, target, now, memo>>

\* line 134, os.fsync
FsyncSkipped(s) ==
    /\ pc[s] = "fsync"
    /\ Goto(s, "replace")
    /\ UNCHANGED <<viewVars, envVars, auth_ok, pwd, btnVars, outcome, site, warned,
                   fetched, updVars, loadVars, fsVars, now, memo>>

Fsync(s) ==
    /\ pc[s] = "fsync"
    /\ inodes' = [inodes EXCEPT ![tmp[s]].synced = TRUE]
    /\ Goto(s, "replace")
    /\ UNCHANGED <<viewVars, envVars, auth_ok, pwd, btnVars, outcome, site, warned,
                   fetched, updVars, loadVars, docs, target, nwrites, now, memo>>

\* lines 135-136: close, then rename over CSV_PATH.  The file the name pointed
\* to lives on for as long as a reader holds it open.
Replace(s) ==
    /\ pc[s] = "replace"
    /\ target' = tmp[s]
    /\ tmp' = [tmp EXCEPT ![s] = 0]
    /\ inodes' = Collect(inodes, target', tmp', fd)
    /\ Goto(s, "ret")
    /\ UNCHANGED <<viewVars, envVars, auth_ok, pwd, btnVars, outcome, site, warned,
                   fetched, data, loadVars, docs, nwrites, now, memo>>

\* update_csv returns, its locals gone: to line 146 (rerun) or to line 171
Return(s) ==
    /\ pc[s] = "ret"
    /\ IF site[s] = "button"
       THEN rerun(s)
       ELSE /\ Goto(s, "stat")
            /\ data' = [data EXCEPT ![s] = <<>>]
            /\ UNCHANGED <<btnVars, warned, fetched, buf, mtime, df>>
    /\ UNCHANGED <<viewVars, envVars, auth_ok, pwd, outcome, site, tmp, fd, fsVars,
                   now, memo>>

-----------------------------------------------------------------------------
(* Loading, lines 162-172 *)

\* the entries st.cache_data would still return for this key
MemoHits(key) == {e \in memo : e.key = key /\ now - e.at < TTL}

MemoStore(key, table) ==
    {e \in memo : e.key # key} \cup {[key |-> key, table |-> table, at |-> now]}

\* line 171: CSV_PATH.stat() raises FileNotFoundError when there is no file,
\* and nothing catches it
Stat(s) ==
    /\ pc[s] = "stat"
    /\ IF ~Exists
       THEN EndRun(s, "exception") /\ UNCHANGED mtime
       ELSE /\ mtime' = [mtime EXCEPT ![s] = StatMtime]
            /\ Goto(s, "load")
            /\ UNCHANGED outcome
    /\ UNCHANGED <<viewVars, envVars, auth_ok, pwd, btnVars, site, warned, fetched,
                   updVars, fd, buf, df, fsVars, now, memo>>

\* line 172: a memoized table for (path, mtime), or open the file to read it
Load(s) ==
    /\ pc[s] = "load"
    /\ IF MemoHits(mtime[s]) # {}
       THEN /\ \E e \in MemoHits(mtime[s]) : df' = [df EXCEPT ![s] = e.table]
            /\ Goto(s, "render")
            /\ UNCHANGED <<fd, buf>>
       ELSE /\ fd' = [fd EXCEPT ![s] = target]
            /\ buf' = [buf EXCEPT ![s] = <<>>]
            /\ Goto(s, "read")
            /\ UNCHANGED df
    /\ UNCHANGED <<viewVars, envVars, auth_ok, pwd, btnVars, outcome, site, warned,
                   fetched, updVars, mtime, fsVars, now, memo>>

\* line 164, pd.read_csv reading the open file: the next chunk
Read(s) ==
    /\ pc[s] = "read"
    /\ Len(buf[s]) < Len(inodes[fd[s]].data)
    /\ buf' = [buf EXCEPT ![s] = Append(@, inodes[fd[s]].data[Len(@) + 1])]
    /\ UNCHANGED <<viewVars, envVars, auth_ok, pwd, btnVars, pc, outcome, site, warned,
                   fetched, updVars, fd, mtime, df, fsVars, now, memo>>

\* lines 164-169 at end of file: the rows read become the table, which is
\* memoized under (path, mtime); pandas raises on a file with nothing in it
ReadEof(s) ==
    /\ pc[s] = "read"
    /\ Len(buf[s]) >= Len(inodes[fd[s]].data)
    /\ fd' = [fd EXCEPT ![s] = 0]
    /\ inodes' = Collect(inodes, target, tmp, fd')
    /\ buf' = [buf EXCEPT ![s] = <<>>]
    /\ IF buf[s] = <<>>
       THEN EndRun(s, "exception") /\ UNCHANGED <<df, memo>>
       ELSE /\ df' = [df EXCEPT ![s] = buf[s]]
            /\ memo' = MemoStore(mtime[s], buf[s])
            /\ Goto(s, "render")
            /\ UNCHANGED outcome
    /\ UNCHANGED <<viewVars, envVars, auth_ok, pwd, btnVars, site, warned, fetched,
                   updVars, mtime, docs, target, nwrites, now>>

\* lines 177-247: the dashboard is drawn from df and mtime.  What its filters
\* and its chart compute of a table of rows is the section that follows.
Render(s) ==
    /\ pc[s] = "render"
    /\ EndRun(s, "rendered")
    /\ UNCHANGED <<viewVars, envVars, auth_ok, pwd, btnVars, site, warned, fetched,
                   updVars, loadVars, fsVars, now, memo>>

-----------------------------------------------------------------------------
(* The dashboard, lines 183-210: filters over the loaded table and the      *)
(* chart of categories.  Here a table is a sequence of rows with the two    *)
(* columns the filters read.                                                *)

MaxRows == 2          \* rows of the longest table tried by SpecFilter

\* values of the Categories column: empty, one category, a list written with
\* blanks, a category listed twice, a list ending in a comma
CatFields == {<<>>, <<"a">>, <<"c">>, <<"a", Comma, WS, "b">>,
              <<"a", Comma, "a">>, <<WS, "b", WS, Comma>>}

\* values of the geolocation_state_long column
StateNames == {"PE", "SP"}

Rows == [Categories : CatFields, geolocation_state_long : StateNames]

Tables == UNION {[1..n -> Rows] : n \in 0..MaxRows}

\* line 183, sorted(df["geolocation_state_long"].unique())
estados(table) == {table[i].geolocation_state_long : i \in 1..Len(table)}

\* lines 186-190: {c.strip() for lst in ... .str.split(",") for c in lst
\* if c.strip()}
categorias(table) ==
    UNION {LET lst == Split(table[i].Categories, Comma)
           IN  {Strip(lst[j]) : j \in {k \in 1..Len(lst) : Strip(lst[k]) # <<>>}}
           : i \in 1..Len(table)}

\* line 196, any(cat.strip() in cats_sel for cat in x.split(","))
AnyCatNoStrip(x, sel) ==
    \E j \in 1..Len(Split(x, Comma)) : Split(x, Comma)[j] \in sel

AnyCat(x, sel) ==
    \E j \in 1..Len(Split(x, Comma)) : Strip(Split(x, Comma)[j]) \in sel

\* line 193
ByState(table, estado) ==
    IF estado = "Todos" THEN table
    ELSE SelectSeq(table, LAMBDA r : r.geolocation_state_long = estado)

\* lines 193-196
FilterAlways(table, estado, sel) ==
    SelectSeq(ByState(table, estado), LAMBDA r : AnyCat(r.Categories, sel))

Filter(table, estado, sel) ==
    IF sel # categorias(table)
    THEN SelectSeq(ByState(table, estado), LAMBDA r : AnyCat(r.Categories, sel))
    ELSE ByState(table, estado)

\* .str.split(",").explode(): the pieces of every row, one after another
RECURSIVE Explode(_)
Explode(table) ==
    IF table = <<>> THEN <<>>
    ELSE Split(Head(table).Categories, Comma) \o Explode(Tail(table))

\* lines 208-209: .str.strip().replace("", pd.NA).dropna()
CatSeriesKeepsEmpty(table) ==
    LET pieces == Explode(table)
    IN  [i \in 1..Len(pieces) |-> Strip(pieces[i])]

CatSeries(table) ==
    LET pieces == Explode(table)
    IN  SelectSeq([i \in 1..Len(pieces) |-> Strip(pieces[i])],
                  LAMBDA c : c # <<>>)

\* line 210, Series.value_counts()
value_counts(series) ==
    [c \in {series[i] : i \in 1..Len(series)} |->
        Cardinality({i \in 1..Len(series) : series[i] = c})]

\* lines 183-191: the sidebar offers the states and the categories of the
\* table, and the widgets return what the user has selected of them
Sidebar(s) ==
    /\ pc[s] = "filters"
    /\ \E estado \in {"Todos"} \cup estados(df[s]) :
          estado_sel' = [estado_sel EXCEPT ![s] = estado]
    /\ \E sel \in SUBSET categorias(df[s]) :
          cats_sel' = [cats_sel EXCEPT ![s] = sel]
    /\ Goto(s, "df_f")
    /\ UNCHANGED <<envVars, auth_ok, pwd, btnVars, outcome, site, warned,
                   fetched, updVars, loadVars, fsVars, now, memo, df_f,
                   cat_series>>

\* lines 193-196
ApplyFilters(s) ==
    /\ pc[s] = "df_f"
    /\ df_f' = [df_f EXCEPT ![s] = Filter(df[s], estado_sel[s], cats_sel[s])]
    /\ Goto(s, "chart")
    /\ UNCHANGED <<envVars, auth_ok, pwd, btnVars, outcome, site, warned,
                   fetched, updVars, loadVars, fsVars, now, memo, estado_sel,
                   cats_sel, cat_series>>

\* lines 208-210, and the rest of the page down to the end of the script
CatChart(s) ==
    /\ pc[s] = "chart"
    /\ cat_series' = [cat_series EXCEPT ![s] = CatSeries(df_f[s])]
    /\ EndRun(s, "rendered")
    /\ UNCHANGED <<envVars, auth_ok, pwd, btnVars, site, warned, fetched,
                   updVars, loadVars, fsVars, now, memo, estado_sel, cats_sel,
                   df_f>>

-----------------------------------------------------------------------------
(* The environment *)

\* ten minutes pass; memoized entries past their time to live are gone
Tick ==
    /\ now < MaxTime
    /\ now' = now + 1
    /\ nwrites' = 0
    /\ memo' = {e \in memo : now' - e.at < TTL}
    /\ UNCHANGED <<viewVars, envVars, auth_ok, pwd, btnVars, pc, outcome, site, warned,
                   fetched, updVars, loadVars, docs, inodes, target>>

\* what a power cut can leave of a file: all of it once it was fsync'ed,
\* otherwise any leading part
Survivors(f) ==
    IF f.synced THEN {f}
    ELSE {[f EXCEPT !.data = SubSeq(f.data, 1, k)] : k \in 0..Len(f.data)}

\* The machine goes down and the server is started again: every session and
\* the memo are gone, the disk stays.  Temporary files left behind keep their
\* random names, which nothing ever opens again; they are not tracked.
Crash ==
    /\ \E s \in Sessions : pc[s] # "idle"
    /\ auth_ok' = AllSessions("absent")
    /\ pwd' = AllSessions(<<>>)
    /\ entrar' = AllSessions(FALSE)
    /\ sair' = AllSessions(FALSE)
    /\ atualizar' = AllSessions(FALSE)
    /\ pc' = AllSessions("idle")
    /\ outcome' = AllSessions("none")
    /\ site' = AllSessions("cycle")
    /\ warned' = AllSessions(FALSE)
    /\ fetched' = AllSessions(FALSE)
    /\ data' = AllSessions(<<>>)
    /\ tmp' = AllSessions(0)
    /\ fd' = AllSessions(0)
    /\ buf' = AllSessions(<<>>)
    /\ mtime' = AllSessions(NoTime)
    /\ df' = AllSessions(<<>>)
    /\ memo' = {}
    /\ IF target = 0
       THEN inodes' = [i \in 1..MaxInodes |-> NoFile]
       ELSE \E f \in Survivors(inodes[target]) :
               inodes' = [i \in 1..MaxInodes |-> IF i = target THEN f ELSE NoFile]
    /\ UNCHANGED <<viewVars, envVars, docs, target, nwrites, now>>

-----------------------------------------------------------------------------
(* Specifications *)

\* the script of session s, one step
Step(s) ==
    \/ CheckCodes(s)
    \/ Gate(s)
    \/ Login(s)
    \/ Logout(s)
    \/ WpCheck(s)
    \/ Button(s)
    \/ UpdCheck(s)
    \/ DownloadOk(s)
    \/ DownloadFail(s)
    \/ MkTmp(s)
    \/ Write(s)
    \/ Fsync(s)
    \/ Replace(s)
    \/ Return(s)
    \/ Stat(s)
    \/ Load(s)
    \/ Read(s)
    \/ ReadEof(s)
    \/ Render(s)

\* one user at a time
Users == {1}

Next ==
    \/ \E s \in Users : Visit(s)
    \/ \E s \in Users : \E code \in Candidates : Submit(s, code)
    \/ \E s \in Users : ClickSair(s)
    \/ \E s \in Users : ClickAtualizar(s)
    \/ \E s \in Users : Step(s)
    \/ Tick

Spec == Init /\ [][Next]_vars

\* The machine goes down at any moment, too
NextCrash == Next \/ Crash

SpecCrash == Init /\ [][NextCrash]_vars

\* Two users who logged in while the file was fresh and whose runs, from the
\* moment the file is about to go stale, interleave at every step
InitRace ==
    /\ access_code = <<"a">>
    /\ WP_USER = "user"
    /\ WP_PASS = "pass"
    /\ docs = TRUE
    /\ inodes = [i \in 1..MaxInodes |->
                    IF i = 1 THEN [data |-> Payload(1), t |-> 0, n |-> 2,
                                   synced |-> TRUE]
                    ELSE NoFile]
    /\ target = 1
    /\ now = MAX_AGE
    /\ nwrites = 0
    /\ memo = {}
    /\ auth_ok = AllSessions("true")
    /\ pwd = AllSessions(<<"a">>)
    /\ entrar = AllSessions(FALSE)
    /\ sair = AllSessions(FALSE)
    /\ atualizar = AllSessions(FALSE)
    /\ pc = AllSessions("start")
    /\ outcome = AllSessions("login_form")
    /\ site = AllSessions("cycle")
    /\ warned = AllSessions(FALSE)
    /\ fetched = AllSessions(FALSE)
    /\ data = AllSessions(<<>>)
    /\ tmp = AllSessions(0)
    /\ fd = AllSessions(0)
    /\ buf = AllSessions(<<>>)
    /\ mtime = AllSessions(NoTime)
    /\ df = AllSessions(<<>>)
    /\ InitView

RaceStep(s) ==
    \/ CheckCodes(s)
    \/ Gate(s)
    \/ Logout(s)
    \/ WpCheck(s)
    \/ Button(s)
    \/ UpdCheck(s)
    \/ DownloadOk(s)
    \/ DownloadFail(s)
    \/ MkTmp(s)
    \/ Write(s)
    \/ Fsync(s)
    \/ Replace(s)
    \/ Return(s)
    \/ Stat(s)
    \/ Load(s)
    \/ Read(s)
    \/ ReadEof(s)
    \/ Render(s)

NextRace ==
    \/ \E s \in Sessions : Visit(s)
    \/ \E s \in Sessions : ClickAtualizar(s)
    \/ \E s \in Sessions : RaceStep(s)
    \/ Tick

SpecRace == InitRace /\ [][NextRace]_vars

\* Every configured code list and every submitted code, up to a length
InitAuth ==
    /\ access_code \in StringsUpTo(MaxCodeLen)
    /\ WP_USER = "user"
    /\ WP_PASS = "pass"
    /\ InitSessions
    /\ InitDisk
    /\ InitView

NextAuth ==
    \/ Visit(1)
    \/ \E code \in StringsUpTo(MaxPwdLen) : Submit(1, code)
    \/ CheckCodes(1)
    \/ Gate(1)
    \/ Login(1)

SpecAuth == InitAuth /\ [][NextAuth]_vars

\* The dashboard of one logged-in session, for every table up to a length
\* and every selection the sidebar offers for it
InitFilter ==
    /\ access_code = <<"a">>
    /\ WP_USER = "user"
    /\ WP_PASS = "pass"
    /\ docs = TRUE
    /\ inodes = [i \in 1..MaxInodes |->
                    IF i = 1 THEN [data |-> Payload(1), t |-> 0, n |-> 2,
                                   synced |-> TRUE]
                    ELSE NoFile]
    /\ target = 1
    /\ now = 0
    /\ nwrites = 0
    /\ memo = {}
    /\ auth_ok = [s \in Sessions |-> IF s = 1 THEN "true" ELSE "absent"]
    /\ pwd = [s \in Sessions |-> IF s = 1 THEN <<"a">> ELSE <<>>]
    /\ entrar = AllSessions(FALSE)
    /\ sair = AllSessions(FALSE)
    /\ atualizar = AllSessions(FALSE)
    /\ pc = [s \in Sessions |-> IF s = 1 THEN "filters" ELSE "idle"]
    /\ outcome = [s \in Sessions |-> IF s = 1 THEN "login_form" ELSE "none"]
    /\ site = AllSessions("cycle")
    /\ warned = AllSessions(FALSE)
    /\ fetched = AllSessions(FALSE)
    /\ data = AllSessions(<<>>)
    /\ tmp = AllSessions(0)
    /\ fd = AllSessions(0)
    /\ buf = AllSessions(<<>>)
    /\ mtime = [s \in Sessions |-> IF s = 1 THEN [t |-> 0, n |-> 2] ELSE NoTime]
    /\ \E table \in Tables :
          df = [s \in Sessions |-> IF s = 1 THEN table ELSE <<>>]
    /\ InitView

NextFilter ==
    \/ Sidebar(1)
    \/ ApplyFilters(1)
    \/ CatChart(1)

SpecFilter == InitFilter /\ [][NextFilter]_vars


-----------------------------------------------------------------------------
(* Properties *)

\* the cached file as a reader of CSV_PATH finds it
TargetView ==
    IF Exists THEN [exists |-> TRUE, data |-> inodes[target].data]
    ELSE [exists |-> FALSE, data |-> <<>>]

\* session s renames its temporary file over CSV_PATH in this step
Replaces(s) == pc[s] = "replace" /\ pc'[s] = "ret"

\* the positions of the script behind the login gate
PostGate == {"sair", "wp", "button", "upd_check", "download", "mktmp", "write",
             "fsync", "replace", "ret", "stat", "load", "read", "render"}

\* C1: whenever the refresh button was pressed, update_csv has called
\* download_csv by the time it returns to the button's branch (and rerun
\* follows), whatever the age of the cached file.
C1_ManualRefreshAlwaysFetches ==
    \A s \in Sessions : (pc[s] = "ret" /\ site[s] = "button") => fetched[s]

C3_AtomicReplace ==
    /\ [](Exists => inodes[target].data \in Payloads)
    /\ [][\A s \in Sessions :
            Replaces(s) => TargetView' = [exists |-> TRUE, data |-> data[s]]]_vars
    /\ [][TargetView' # TargetView => \E s \in Sessions : Replaces(s)]_vars

\* C3, its case: the machine went down after the first chunk of a new
\* temporary file was written, and the old cached file is there.
C3_Witness ==
    /\ Exists
    /\ nwrites = 1
    /\ \A s \in Sessions : auth_ok[s] = "absent" /\ pc[s] = "idle"

\* C4: a failing download_csv is caught in update_csv: a warning is shown, the
\* files are as they were and update_csv returns; and a run that showed the
\* warning while a cached file exists goes on to draw the dashboard from that
\* file and its modification time.
C4_FetchErrorServesStale ==
    /\ [][\A s \in Sessions :
            (pc[s] = "download" /\ pc'[s] \notin {"download", "mktmp"})
               => /\ pc'[s] = "ret"
                  /\ warned'[s]
                  /\ inodes' = inodes /\ target' = target]_vars
    /\ [](\A s \in Sessions :
            (warned[s] /\ Exists /\ site[s] = "cycle")
               => \/ pc[s] \in {"ret", "stat", "load", "read", "render"}
                  \/ /\ pc[s] = "idle" /\ outcome[s] = "rendered"
                     /\ df[s] = inodes[target].data
                     /\ mtime[s] = StatMtime)

\* C4, its case: the fetch failed, and the run ended drawing the stale file.
C4_Witness ==
    \E s \in Sessions :
        /\ pc[s] = "idle" /\ warned[s] /\ outcome[s] = "rendered"
        /\ Exists /\ now - inodes[target].t > MAX_AGE

\* C5: a run in which the fetch failed never ends in an exception nobody
\* caught, also when there is no cached file.
C5_MissingFileIsRecoverable ==
    \A s \in Sessions : (pc[s] = "idle" /\ warned[s]) => outcome[s] # "exception"

\* the string c is one of the configured codes: a comma-separated piece of
\* ACCESS_CODE, trimmed, and not empty
InCredentialSet(c) ==
    /\ c # <<>>
    /\ \E i \in 1..Len(Split(access_code, Comma)) :
          Strip(Split(access_code, Comma)[i]) = c

\* the login handler of session s runs on a submitted code in this step
LoginAttempt(s) == pc[s] = "login" /\ entrar[s] /\ pc'[s] # "login"

\* C6 as stated: a submitted code logs in if and only if, trimmed, it is one
\* of the configured codes.
C6_LoginIffTrimmedMember ==
    [][\A s \in Sessions :
         LoginAttempt(s)
            => (auth_ok'[s] = "true" <=> InCredentialSet(Strip(pwd[s])))]_vars

\* C6 as amended: a submitted code logs in if and only if, exactly as
\* submitted, it is one of the configured codes.
C6_LoginIffExactMember ==
    [][\A s \in Sessions :
         LoginAttempt(s)
            => /\ VALID_CODES # {}
               /\ auth_ok'[s] = "true" <=> InCredentialSet(pwd[s])]_vars

\* C6, its case: a code of a list of several, written with blanks, logged in.
C6_Witness ==
    \E s \in Sessions :
        /\ auth_ok[s] = "true" /\ pc[s] = "start"
        /\ InCredentialSet(pwd[s])
        /\ Len(access_code) > Len(pwd[s])

\* C7: the script is behind the gate only in a session whose flag is true,
\* and every fetch, file write, load and rendering is a step of such a session.
C7_GateGuardsEverything ==
    /\ [](\A s \in Sessions : pc[s] \in PostGate => auth_ok[s] = "true")
    /\ [][\A s \in Sessions :
            (\/ fetched'[s] /\ ~fetched[s]
             \/ tmp'[s] # tmp[s]
             \/ fd'[s] # fd[s]
             \/ df'[s] # df[s] /\ df'[s] # <<>>
             \/ pc[s] # "idle" /\ pc'[s] = "idle" /\ outcome'[s] = "rendered")
               => auth_ok[s] = "true"]_vars
    /\ [][(target' # target \/ inodes' # inodes)
            => \E s \in Sessions : auth_ok[s] = "true" /\ pc[s] \in PostGate]_vars

\* C7, its case: a run of a logged-out session ended at the login form while
\* the cached file was stale, so that a run past the gate would have fetched.
C7_Witness ==
    \E s \in Sessions :
        /\ pc[s] = "idle" /\ auth_ok[s] = "false"
        /\ outcome[s] \in {"login_form", "login_error"}
        /\ Exists /\ now - inodes[target].t > MAX_AGE

\* C8: the flag is created false at the gate, becomes true only in the login
\* handler on a code of the credential set, becomes false only in the logout
\* handler, and nothing else changes it; a rejected code leaves it false and
\* a logout always sets it false.
C8_FlagMachine ==
    [][\A s \in Sessions :
         /\ auth_ok'[s] # auth_ok[s]
               => \/ /\ auth_ok[s] = "absent" /\ auth_ok'[s] = "false"
                     /\ pc[s] = "gate"
                  \/ /\ auth_ok[s] = "false" /\ auth_ok'[s] = "true"
                     /\ pc[s] = "login" /\ entrar[s] /\ InCredentialSet(pwd[s])
                  \/ /\ auth_ok[s] = "true" /\ auth_ok'[s] = "false"
                     /\ pc[s] = "sair" /\ sair[s]
         /\ (LoginAttempt(s) /\ ~InCredentialSet(pwd[s]))
               => auth_ok'[s] = "false"
         /\ (pc[s] = "sair" /\ sair[s] /\ pc'[s] # "sair")
               => auth_ok'[s] = "false"]_vars

\* C8, its case: the logout handler has just set the flag false and asked
\* for a rerun, in a session whose last finished run drew the dashboard.
C8_Witness ==
    \E s \in Sessions :
        auth_ok[s] = "false" /\ pc[s] = "start" /\ outcome[s] = "rendered"

C10_NoTornRead ==
    /\ [](\A s \in Sessions :
            pc[s] = "read"
               => /\ inodes[fd[s]].data \in Payloads
                  /\ buf[s] = SubSeq(inodes[fd[s]].data, 1, Len(buf[s])))
    /\ [](\A s \in Sessions : df[s] # <<>> => df[s] \in Payloads)
    /\ [](Exists => inodes[target].data \in Payloads)
    /\ [][\A s \in Sessions :
            Replaces(s) => TargetView' = [exists |-> TRUE, data |-> data[s]]]_vars
    /\ [][TargetView' # TargetView => \E s \in Sessions : Replaces(s)]_vars

\* C10, its case: one session is half way through reading the old file when
\* the other has just renamed a file of different content over CSV_PATH.
C10_Witness ==
    \E r \in Sessions : \E w \in Sessions \ {r} :
        /\ pc[r] = "read" /\ Len(buf[r]) = 1
        /\ fd[r] # target
        /\ inodes[fd[r]].data # inodes[target].data
        /\ pc[w] = "ret" /\ data[w] = inodes[target].data

\* the positions of update_csv between its decision to fetch and its rename
Refreshing == {"download", "mktmp", "write", "fsync", "replace"}

FileTime(i) == [t |-> inodes[i].t, n |-> inodes[i].n]

\* modification time a is earlier than modification time b
Older(a, b) == a.t < b.t \/ (a.t = b.t /\ a.n < b.n)

\* C12: the table a load produces for (path, mtime), which the run draws
\* under that mtime and the memo keeps under that key, is never parsed from a
\* file older than the one whose mtime it is.
C12_NeverOlderThanDisplayed ==
    [][\A s \in Sessions :
         (pc[s] = "read" /\ pc'[s] = "render")
            => ~Older(FileTime(fd[s]), mtime[s])]_vars

\* session s has computed df_f from the table and the selections it holds
FilterApplied(s) ==
    pc[s] = "chart" \/ (pc[s] = "idle" /\ outcome[s] = "rendered")

\* the rows of the table that the state selection alone lets through
StateRows(table, estado) ==
    SelectSeq(table, LAMBDA r : estado = "Todos"
                                   \/ r.geolocation_state_long = estado)

\* the category tokens a row lists: its comma-separated pieces, trimmed, the
\* empty ones left out
Tokens(row) ==
    LET lst == Split(row.Categories, Comma)
    IN  SelectSeq([j \in 1..Len(lst) |-> Strip(lst[j])], LAMBDA c : c # <<>>)

\* C13 as stated: with every category of the table selected, df_f is what the
\* state selection alone lets through, and it is also what selecting no
\* category gives.
C13_AllEqualsNone ==
    \A s \in Sessions :
        (FilterApplied(s) /\ cats_sel[s] = categorias(df[s]))
           => /\ df_f[s] = StateRows(df[s], estado_sel[s])
              /\ df_f[s] = Filter(df[s], estado_sel[s], {})

\* C13 as amended: with every category of the table selected, df_f is what
\* the state selection alone lets through, rows without any category
\* included; with no category selected, of a table that has categories, df_f
\* is empty.
C13_AllEqualsNoFilter ==
    \A s \in Sessions :
        /\ (FilterApplied(s) /\ cats_sel[s] = categorias(df[s]))
              => df_f[s] = StateRows(df[s], estado_sel[s])
        /\ (FilterApplied(s) /\ cats_sel[s] = {} /\ categorias(df[s]) # {})
              => df_f[s] = <<>>

\* C13, its case: every category is selected, a state is selected, and df_f
\* holds a row that lists no category.
C13_Witness ==
    \E s \in Sessions :
        /\ FilterApplied(s)
        /\ cats_sel[s] = categorias(df[s]) /\ cats_sel[s] # {}
        /\ estado_sel[s] # "Todos"
        /\ \E i \in 1..Len(df_f[s]) : Tokens(df_f[s][i]) = <<>>

\* session s has drawn the chart of categories from the df_f it holds
Charted(s) == pc[s] = "idle" /\ outcome[s] = "rendered"

\* the sum of the counts of a value_counts result
RECURSIVE SumCounts(_)
SumCounts(counts) ==
    IF DOMAIN counts = {} THEN 0
    ELSE LET c == CHOOSE x \in DOMAIN counts : TRUE
         IN  counts[c] + SumCounts([x \in DOMAIN counts \ {c} |-> counts[x]])

\* every place <<row, position>> of the table at which a category token stands
TokenPlaces(table) ==
    UNION {{<<i, j>> : j \in 1..Len(Tokens(table[i]))} : i \in 1..Len(table)}

\* the rows of the table that list at least one category token
RowsWithTokens(table) == {i \in 1..Len(table) : Tokens(table[i]) # <<>>}

\* C14 as stated: the chart counts a row once for each category token it
\* lists; the counts sum to at least the number of rows of df_f, and to
\* exactly that number if and only if every row lists exactly one category.
C14_SumAtLeastRows ==
    \A s \in Sessions :
        Charted(s)
           => LET counts == value_counts(cat_series[s])
                  total == SumCounts(counts)
              IN  /\ \A c \in DOMAIN counts :
                        counts[c] = Cardinality({p \in TokenPlaces(df_f[s]) :
                                        Tokens(df_f[s][p[1]])[p[2]] = c})
                  /\ total >= Len(df_f[s])
                  /\ total = Len(df_f[s])
                        <=> \A i \in 1..Len(df_f[s]) :
                               Len(Tokens(df_f[s][i])) = 1

\* C14 as amended: the chart has one bar for each category of df_f and counts
\* a row once for each token it lists (twice, if it lists one twice); the
\* counts sum to the number of tokens listed, which is at least the number of
\* rows that list any, and exactly that number if and only if each of these
\* rows lists exactly one.  Rows that list no category add nothing.
C14_SumIsTokens ==
    \A s \in Sessions :
        Charted(s)
           => LET counts == value_counts(cat_series[s])
                  total == SumCounts(counts)
                  listing == RowsWithTokens(df_f[s])
              IN  /\ DOMAIN counts = categorias(df_f[s])
                  /\ \A c \in DOMAIN counts :
                        counts[c] = Cardinality({p \in TokenPlaces(df_f[s]) :
                                        Tokens(df_f[s][p[1]])[p[2]] = c})
                  /\ total = Cardinality(TokenPlaces(df_f[s]))
                  /\ total >= Cardinality(listing)
                  /\ total = Cardinality(listing)
                        <=> \A i \in listing : Len(Tokens(df_f[s][i])) = 1

\* C14, its case: df_f has a row that lists two categories with a blank
\* after the comma and a row that lists none, and the chart shows two bars
\* of one each.
C14_Witness ==
    \E s \in Sessions :
        /\ Charted(s)
        /\ Len(df_f[s]) = 2
        /\ \E i \in 1..2 : df_f[s][i].Categories = <<"a", Comma, WS, "b">>
        /\ \E i \in 1..2 : df_f[s][i].Categories = <<>>
        /\ value_counts(cat_series[s]) = (<<"a">> :> 1) @@ (<<"b">> :> 1)

\* C15: with a selection of categories other than all of them, df_f is made
\* of exactly the rows of the table, in their order, for which "Todos" is
\* selected or the row's state is the selected one, and of whose category
\* tokens at least one is selected.
C15_FilterIffStateAndAnyToken ==
    \A s \in Sessions :
        (FilterApplied(s) /\ cats_sel[s] # categorias(df[s]))
           => df_f[s] =
                 SelectSeq(df[s],
                     LAMBDA r :
                        /\ \/ estado_sel[s] = "Todos"
                           \/ r.geolocation_state_long = estado_sel[s]
                        /\ \E j \in 1..Len(Tokens(r)) :
                              Tokens(r)[j] \in cats_sel[s])

\* C15, its case: a state and the second category of a row of that state,
\* written after a blank, are selected; the row is in df_f and another row
\* of the state, of an unselected category, is not.
C15_Witness ==
    \E s \in Sessions :
        /\ FilterApplied(s)
        /\ estado_sel[s] = "PE" /\ cats_sel[s] = {<<"b">>}
        /\ df[s] = <<[Categories |-> <<"a", Comma, WS, "b">>,
                      geolocation_state_long |-> "PE"],
                     [Categories |-> <<"c">>, geolocation_state_long |-> "PE"]>>
        /\ df_f[s] = <<df[s][1]>>

=============================================================================
